---- MODULE Spec2Model ----
(***************************************************************************)
(* The audio capture pipeline of AI_Meeting_Notes.                         *)
(*                                                                         *)
(*  - backend/meeting_capture.py: class MeetingCapture, its capture        *)
(*    worker threads (_capture_loop, _capture_loop_dual), the synchronizer *)
(*    (_try_mix_audio), the dispatcher's pull (get_audio_chunk) and the    *)
(*    control thread's start() and stop().  Specification Spec.            *)
(*  - meeting_notes_webapp/app.py: the socket handlers start_recording,    *)
(*    stop_recording, pause, resume, reset and the record_audio thread.    *)
(*    Specification WebSpec.                                               *)
(*  - backend/transcriber.py: Transcriber.transcribe_audio,                *)
(*    transcribe_file and _correct_with_groq, with the dispatcher of       *)
(*    backend/main.py (process_audio).  Specification TrSpec.              *)
(*  - backend/meeting_capture.py: the device lookup of the loopback role   *)
(*    (get_wasapi_loopback_device, _find_stereo_mix), of the microphone    *)
(*    role (_find_microphone) and _validate_device.  Specification         *)
(*    SelSpec.                                                             *)
(*  - backend/meeting_capture.py: what the capture loops do to one chunk   *)
(*    (conversion, normalization, noise gate, downmix, _resample) and what *)
(*    _try_mix_audio does to a pair of frames.  Specification FrameSpec.   *)
(*                                                                         *)
(* A thread is a record holding its program counter; one action is one     *)
(* atomic step of one thread between two accesses to shared state or two   *)
(* blocking calls.                                                         *)
(***************************************************************************)
EXTENDS Integers, Sequences, FiniteSets

(* ------------------------------ bounds -------------------------------- *)
\* capture worker threads alive at the same time on one MeetingCapture object
MaxWorkers == 2
\* chunks ever returned by the device backend's read()
MaxFrames == 3
\* record_audio threads ever spawned by the web application
MaxRecThreads == 2
\* entries kept in the web application's live_transcript
MaxTranscript == 2
\* segments the transcription engine returns for one frame or file
MaxSegs == 2
\* entries the dispatcher's transcript_display is followed for
MaxDisplay == 1
\* devices in the audio backend's catalog during role selection
MaxDevices == 2
\* samples of one channel a device read returns at the canonical rate
ChunkFrames == 1
\* samples in a frame handed to the synchronizer
MaxSamples == 2

\* The device catalog holds one microphone and one loopback endpoint:
\* the index _find_microphone returns when its candidate validates
MicDevice == 1
\* the index get_wasapi_loopback_device / _find_stereo_mix return
LoopbackDevice == 2
\* what _find_microphone / _find_stereo_mix return when nothing validates
NoDevice == 0
Devices == {MicDevice, LoopbackDevice}

\* A thread attribute (self.thread, self.mic_thread, self.speaker_thread) is
\* the index of a live worker, or one of:
\* the attribute was never set (hasattr is false)
NoThread == 0
\* a thread object that has returned (is_alive() is false)
DeadThread == -1

VARIABLES
    is_recording,     \* MeetingCapture.is_recording, the shared cancellation flag
    workers,          \* the capture worker threads, in spawn order
    audio_queue,      \* MeetingCapture.audio_queue, the shared output queue
    mic_queue,        \* MeetingCapture.mic_queue (when the attribute exists)
    speaker_queue,    \* MeetingCapture.speaker_queue (when the attribute exists)
    hasMicQ,          \* hasattr(self, 'mic_queue')
    hasSpkQ,          \* hasattr(self, 'speaker_queue')
    thread,           \* self.thread
    mic_thread,       \* self.mic_thread
    speaker_thread,   \* self.speaker_thread
    ctl,              \* the control thread: where it is inside start() / stop()
    nframes,          \* chunks the backend has returned so far
    lastChunk,        \* what the last get_audio_chunk() call returned
    silent,           \* history: only microphone workers of dual capture have pushed frames
    dualFailed,       \* history: a worker of the running dual session has failed
    open_streams,     \* device streams p.open() returned that are not closed yet
    started_at,       \* history: the chunks read so far at the first start() after the last stop()
    recording_active, \* app.py global
    recording_paused, \* app.py global
    recThreads,       \* app.py record_audio threads, in spawn order
    audio_stream,     \* app.py global: the thread whose stream it names
    live_transcript,  \* app.py global: number of entries appended
    webEvent,         \* app.py: the last event a socket handler emitted
    trPc,             \* Transcriber: where the current call is
    segments,         \* result['segments'] of the engine for the current input
    groq_client,      \* Transcriber.groq_client is set (a Groq key was configured)
    engineFailed,     \* self.model.transcribe raised on the current frame
    final_parts,      \* transcribe_audio / transcribe_file local
    flagged_parts,    \* transcribe_audio local: flagged segments not yet corrected
    full_context,     \* transcribe_audio local
    fileK,            \* transcribe_file: the segment its loop is at
    calls,            \* history: the _correct_with_groq calls of the current input
    result,           \* what the call returned
    transcript_display, \* main.py: number of entries appended by the dispatcher
    dispatched,       \* history: what the dispatcher did with the result of the frame before this call
    selPc,            \* role selection: "idle" or "selected"
    catalog,          \* the devices self.p enumerates, by index
    using_wpatch,     \* MeetingCapture.using_wpatch
    default_speakers, \* the WASAPI host API's defaultOutputDevice
    speaker_index,    \* start(): the device chosen for the loopback role
    default_input,    \* the index get_default_input_device_info() names
    mic_index,        \* start(): the device chosen for the microphone role
    validation,       \* the _validate_device call in progress
    frPc,             \* frame processing: "idle", "pushed" or "mixed"
    source_name,      \* the loop that read the chunk: "single", "mic" or "speaker"
    actual_rate,      \* the rate the worker's stream was opened at
    channels,         \* the channels the worker's stream was opened with
    audio_data,       \* the int16 samples stream.read() returned
    audio_np,         \* the processed frame the worker puts on its queue
    mic_audio,        \* _try_mix_audio: the frame taken off mic_queue
    speaker_audio,    \* _try_mix_audio: the frame taken off speaker_queue
    mixed             \* _try_mix_audio: the frame put on audio_queue

capVars == <<is_recording, workers, audio_queue, mic_queue, speaker_queue,
             hasMicQ, hasSpkQ, thread, mic_thread, speaker_thread, ctl,
             nframes, lastChunk, silent, dualFailed, open_streams,
             started_at>>
webVars == <<recording_active, recording_paused, recThreads, audio_stream,
             live_transcript, webEvent>>
trVars == <<trPc, segments, groq_client, engineFailed, final_parts, flagged_parts,
            full_context, fileK, calls, result, transcript_display, dispatched>>
selVars == <<selPc, catalog, using_wpatch, default_speakers, speaker_index,
             default_input, mic_index, validation>>
frVars == <<frPc, source_name, actual_rate, channels, audio_data, audio_np,
            mic_audio, speaker_audio, mixed>>
vars == <<capVars, webVars, trVars, selVars, frVars>>

(* ------------------------------ frames -------------------------------- *)
\* A frame: the source that read it and the number of the read; a mixed
\* frame carries the numbers of the two frames it averages.
Frame(src, a, b) == [src |-> src, a |-> a, b |-> b]
\* get_audio_chunk's "nothing available"
None == Frame("none", 0, 0)
\* queue.Empty escaping get_audio_chunk
RaisedEmpty == Frame("raise", 0, 0)
\* a worker's local mic_audio before it is assigned
NoFrame == Frame("unset", 0, 0)

\* _try_mix_audio lines 440-446: truncate to the shorter and average
Mix(m, s) == Frame("mixed", m.a, s.a)

(* --------------------------- worker threads --------------------------- *)
Worker(kind, dev) ==
    [kind |-> kind, dev |-> dev, pc |-> "open", held |-> NoFrame, cancelled |-> FALSE]

\* workers holds the live threads only
WorkerIds == DOMAIN workers
\* threading.Thread.is_alive() of the thread an attribute names
IsAlive(h) == h \in WorkerIds
IsDual(w) == workers[w].kind \in {"mic", "speaker"}
\* the worker holds an open device stream
StreamOpen(w) == workers[w].pc # "open"

\* an attribute after thread w has returned
Reindex(h, w) == IF h = w THEN DeadThread ELSE IF h > w THEN h - 1 ELSE h

\* the threads that are left when thread w returns
RemoveAt(ws, w) == [i \in 1..(Len(ws) - 1) |-> IF i < w THEN ws[i] ELSE ws[i + 1]]

\* a plausible slip: the error handlers `return` where the code has `break`,
\* so that only the loop's normal exit reaches stop_stream() and close()
ClosedOnExit_LoopOnly(w) == StreamOpen(w) /\ workers[w].pc = "loop"

\* the worker's way out runs stop_stream() and close() on the stream it holds:
\* _capture_loop lines 337-341 (not reached when the open failed, line 301),
\* _capture_loop_dual's `finally: if stream:` lines 422-428
ClosedOnExit(w) == StreamOpen(w)

\* thread w returns, closing its stream on the way out; every attribute
\* naming it names a dead thread
Return(w) ==
    /\ workers' = RemoveAt(workers, w)
    /\ open_streams' = IF ClosedOnExit(w) THEN open_streams - 1 ELSE open_streams
    /\ thread' = Reindex(thread, w)
    /\ mic_thread' = Reindex(mic_thread, w)
    /\ speaker_thread' = Reindex(speaker_thread, w)

\* history: a worker of the running dual session has ended on an exception
FailedAfter(w) == dualFailed \/ IsDual(w)

SetPc(w, pc) == workers' = [workers EXCEPT ![w].pc = pc]

\* what the open-failure handler leaves in is_recording:
\* _capture_loop line 300 clears it, _capture_loop_dual line 420 does not
OpenFailFlag(kind, flag) == IF kind = "single" THEN FALSE ELSE flag

\* a plausible slip: the dual loop puts on the shared queue as the single loop does
PutQueue_Shared(kind) == "audio"

\* the queue a worker puts its frame on: line 331, lines 407-410
PutQueue(kind) ==
    CASE kind = "single" -> "audio"
      [] kind = "mic"    -> "mic"
      [] OTHER           -> "speaker"

\* p.open() succeeded; a dual worker then looks for the per-source queues
\* (line 385: `if not hasattr(self, 'mic_queue')`)
OpenOk(w) ==
    /\ workers[w].pc = "open"
    /\ SetPc(w, IF ~IsDual(w) \/ hasMicQ THEN "loop" ELSE "create_mic")
    /\ open_streams' = open_streams + 1
    /\ UNCHANGED <<is_recording, audio_queue, mic_queue, speaker_queue, hasMicQ,
                   hasSpkQ, thread, mic_thread, speaker_thread, ctl, nframes,
                   lastChunk, silent, dualFailed>>
    /\ UNCHANGED started_at

\* p.open() raised
OpenFail(w) ==
    /\ workers[w].pc = "open"
    /\ Return(w)
    /\ dualFailed' = FailedAfter(w)
    /\ is_recording' = OpenFailFlag(workers[w].kind, is_recording)
    /\ UNCHANGED <<audio_queue, mic_queue, speaker_queue, hasMicQ,
                   hasSpkQ, ctl, nframes, lastChunk, silent>>
    /\ UNCHANGED started_at

\* _capture_loop_dual lines 386-387, one step per assignment
CreateMicQueue(w) ==
    /\ workers[w].pc = "create_mic"
    /\ mic_queue' = <<>>
    /\ hasMicQ' = TRUE
    /\ SetPc(w, "create_spk")
    /\ UNCHANGED <<is_recording, audio_queue, speaker_queue,
                   hasSpkQ, thread, mic_thread, speaker_thread, ctl, nframes,
                   lastChunk, silent, dualFailed>>
    /\ UNCHANGED <<open_streams, started_at>>

CreateSpeakerQueue(w) ==
    /\ workers[w].pc = "create_spk"
    /\ speaker_queue' = <<>>
    /\ hasSpkQ' = TRUE
    /\ SetPc(w, "loop")
    /\ UNCHANGED <<is_recording, audio_queue, mic_queue, hasMicQ,
                   thread, mic_thread, speaker_thread, ctl, nframes,
                   lastChunk, silent, dualFailed>>
    /\ UNCHANGED <<open_streams, started_at>>

\* `while self.is_recording:` (lines 305, 389); on exit the stream is closed
LoopCheck(w) ==
    /\ workers[w].pc = "loop"
    /\ IF is_recording
       THEN SetPc(w, "reading") /\ UNCHANGED <<thread, mic_thread, speaker_thread, open_streams>>
       ELSE Return(w)
    /\ UNCHANGED <<is_recording, audio_queue, mic_queue, speaker_queue, hasMicQ,
                   hasSpkQ, ctl, nframes, lastChunk, silent, dualFailed>>
    /\ UNCHANGED started_at

\* stream.read() returned; the frame is post-processed and put on its queue
ReadReturn(w) ==
    /\ workers[w].pc = "reading"
    /\ nframes < MaxFrames
    /\ nframes' = nframes + 1
    /\ LET f == Frame(workers[w].kind, nframes + 1, 0)
           q == PutQueue(workers[w].kind)
       IN  \/ /\ q = "audio"
              /\ audio_queue' = Append(audio_queue, f)
              /\ SetPc(w, IF IsDual(w) THEN "mix_check" ELSE "loop")
              /\ silent' = (silent /\ workers[w].kind = "mic")
              /\ UNCHANGED <<mic_queue, speaker_queue, thread, mic_thread,
                             speaker_thread, dualFailed, open_streams>>
           \/ /\ q = "mic"
              /\ mic_queue' = Append(mic_queue, f)
              /\ SetPc(w, "mix_check")
              /\ silent' = (silent /\ workers[w].kind = "mic")
              /\ UNCHANGED <<audio_queue, speaker_queue, thread, mic_thread,
                             speaker_thread, dualFailed, open_streams>>
           \/ /\ q = "speaker"
              /\ hasSpkQ
              /\ speaker_queue' = Append(speaker_queue, f)
              /\ SetPc(w, "mix_check")
              /\ silent' = (silent /\ workers[w].kind = "mic")
              /\ UNCHANGED <<audio_queue, mic_queue, thread, mic_thread,
                             speaker_thread, dualFailed, open_streams>>
           \/ \* self.speaker_queue does not exist yet: AttributeError, break
              /\ q = "speaker"
              /\ ~hasSpkQ
              /\ Return(w)
              /\ dualFailed' = FailedAfter(w)
              /\ UNCHANGED <<audio_queue, mic_queue, speaker_queue, silent>>
    /\ UNCHANGED <<is_recording, hasMicQ, hasSpkQ, ctl, lastChunk>>
    /\ UNCHANGED started_at

\* stream.read() or the post-processing raised: `break`, stream closed
ReadError(w) ==
    /\ workers[w].pc = "reading"
    /\ Return(w)
    /\ dualFailed' = FailedAfter(w)
    /\ UNCHANGED <<is_recording, audio_queue, mic_queue, speaker_queue, hasMicQ,
                   hasSpkQ, ctl, nframes, lastChunk, silent>>
    /\ UNCHANGED started_at

(* ----------------------------- synchronizer --------------------------- *)
\* _try_mix_audio line 436
BothHaveData == mic_queue # <<>> /\ speaker_queue # <<>>

\* _try_mix_audio lines 432-436: the attribute and emptiness checks
MixCheck(w) ==
    /\ workers[w].pc = "mix_check"
    /\ SetPc(w, IF hasMicQ /\ hasSpkQ /\ BothHaveData THEN "mix_get_mic" ELSE "loop")
    /\ UNCHANGED <<is_recording, audio_queue, mic_queue, speaker_queue, hasMicQ,
                   hasSpkQ, thread, mic_thread, speaker_thread, ctl, nframes,
                   lastChunk, silent, dualFailed>>
    /\ UNCHANGED <<open_streams, started_at>>

\* line 437: self.mic_queue.get(), which blocks while the queue is empty
MixGetMic(w) ==
    /\ workers[w].pc = "mix_get_mic"
    /\ mic_queue # <<>>
    /\ workers' = [workers EXCEPT ![w].pc = "mix_get_spk", ![w].held = Head(mic_queue)]
    /\ mic_queue' = Tail(mic_queue)
    /\ UNCHANGED <<is_recording, audio_queue, speaker_queue, hasMicQ,
                   hasSpkQ, thread, mic_thread, speaker_thread, ctl, nframes,
                   lastChunk, silent, dualFailed>>
    /\ UNCHANGED <<open_streams, started_at>>

\* lines 438-449: self.speaker_queue.get() (blocking), mix, audio_queue.put
MixGetSpeaker(w) ==
    /\ workers[w].pc = "mix_get_spk"
    /\ speaker_queue # <<>>
    /\ audio_queue' = Append(audio_queue, Mix(workers[w].held, Head(speaker_queue)))
    /\ speaker_queue' = Tail(speaker_queue)
    /\ workers' = [workers EXCEPT ![w].pc = "loop", ![w].held = NoFrame]
    /\ UNCHANGED <<is_recording, mic_queue, hasMicQ,
                   hasSpkQ, thread, mic_thread, speaker_thread, ctl, nframes,
                   lastChunk, silent, dualFailed>>
    /\ UNCHANGED <<open_streams, started_at>>

(* ------------------------------ dispatcher ---------------------------- *)
\* a plausible slip: queue.Empty is not caught
GetChunkResult_Raises(q) == IF q = <<>> THEN RaisedEmpty ELSE Head(q)

\* get_audio_chunk lines 547-550: audio_queue.get(timeout=0.5),
\* queue.Empty turned into None
GetChunkResult(q) == IF q = <<>> THEN None ELSE Head(q)

\* a plausible slip: the head is read and left on the queue
AfterGet_Peek(q) == q

\* Queue.get: the head leaves the queue
AfterGet(q) == IF q = <<>> THEN q ELSE Tail(q)

GetAudioChunk ==
    /\ lastChunk' = GetChunkResult(audio_queue)
    /\ audio_queue' = AfterGet(audio_queue)
    /\ UNCHANGED <<is_recording, workers, mic_queue, speaker_queue, hasMicQ,
                   hasSpkQ, thread, mic_thread, speaker_thread, ctl, nframes,
                   silent, dualFailed>>
    /\ UNCHANGED <<open_streams, started_at>>

(* ---------------------------- control thread -------------------------- *)
\* ret is what the last start() returned ("none": no start() since the last stop())
Idle == [pc |-> "idle", both |-> FALSE, wasActive |-> FALSE, ret |-> "none"]

\* a plausible slip: `and` for `or` in the dual lookup test
DualLookupFails_Both(mic, speaker) == mic = NoDevice /\ speaker = NoDevice

\* start() line 195: `if mic_index is None or speaker_index is None`
DualLookupFails(mic, speaker) == mic = NoDevice \/ speaker = NoDevice

\* start() line 177: the flag is raised before any device is looked for
StartBegin(both) ==
    /\ ctl.pc = "idle"
    /\ Len(workers) + (IF both THEN 2 ELSE 1) <= MaxWorkers
    /\ is_recording' = TRUE
    /\ ctl' = [Idle EXCEPT !.pc = "starting", !.both = both, !.wasActive = is_recording]
    /\ UNCHANGED <<workers, audio_queue, mic_queue, speaker_queue, hasMicQ,
                   hasSpkQ, thread, mic_thread, speaker_thread, nframes,
                   lastChunk, silent, dualFailed>>
    /\ UNCHANGED open_streams
    /\ started_at' = IF ctl.ret = "none" THEN nframes ELSE started_at

\* start() lines 181-219 with capture_both: mic and speaker are what
\* _find_microphone and the loopback / stereo-mix search returned
StartDual(mic, speaker) ==
    /\ ctl.pc = "starting"
    /\ ctl.both
    /\ IF DualLookupFails(mic, speaker)
       THEN /\ is_recording' = FALSE
            /\ ctl' = [Idle EXCEPT !.ret = "false"]
            /\ UNCHANGED <<workers, mic_thread, speaker_thread, dualFailed>>
       ELSE /\ ctl' = [Idle EXCEPT !.ret = "true"]
            /\ workers' = workers \o <<Worker("mic", mic), Worker("speaker", speaker)>>
            /\ mic_thread' = Len(workers) + 1
            /\ speaker_thread' = Len(workers) + 2
            /\ dualFailed' = FALSE
            /\ UNCHANGED is_recording
    /\ UNCHANGED <<audio_queue, mic_queue, speaker_queue, hasMicQ,
                   hasSpkQ, thread, nframes, lastChunk, silent>>
    /\ UNCHANGED <<open_streams, started_at>>

\* start() lines 221-254, single source: dev is device_index after auto-selection
StartSingle(dev) ==
    /\ ctl.pc = "starting"
    /\ ~ctl.both
    /\ IF dev = NoDevice
       THEN /\ is_recording' = FALSE
            /\ ctl' = [Idle EXCEPT !.ret = "false"]
            /\ UNCHANGED <<workers, thread>>
       ELSE /\ ctl' = [Idle EXCEPT !.ret = "true"]
            /\ workers' = Append(workers, Worker("single", dev))
            /\ thread' = Len(workers) + 1
            /\ UNCHANGED is_recording
    /\ UNCHANGED <<audio_queue, mic_queue, speaker_queue, hasMicQ,
                   hasSpkQ, mic_thread, speaker_thread, nframes, lastChunk,
                   silent, dualFailed>>
    /\ UNCHANGED <<open_streams, started_at>>

\* stop() line 554
StopBegin ==
    /\ ctl.pc = "idle"
    /\ is_recording' = FALSE
    /\ ctl' = [Idle EXCEPT !.pc = "join_thread"]
    /\ workers' = [w \in WorkerIds |-> [workers[w] EXCEPT !.cancelled = TRUE]]
    /\ UNCHANGED <<audio_queue, mic_queue, speaker_queue, hasMicQ,
                   hasSpkQ, thread, mic_thread, speaker_thread, nframes,
                   lastChunk, silent, dualFailed>>
    /\ UNCHANGED <<open_streams, started_at>>

\* a plausible slip: join() without a timeout, which waits for the thread to return
JoinTimesOut_Never(w) == FALSE

\* thread.join(timeout=2) gives up on a thread that is still alive
JoinTimesOut(w) == IsAlive(w)

AfterJoin(pc) ==
    CASE pc = "join_thread" -> "join_mic"
      [] pc = "join_mic"    -> "join_spk"
      [] OTHER              -> "drain"

JoinHandle(pc) ==
    CASE pc = "join_thread" -> thread
      [] pc = "join_mic"    -> mic_thread
      [] OTHER              -> speaker_thread

\* stop() lines 557-564: `if hasattr(...) and t.is_alive(): t.join(timeout=2)`
Join ==
    /\ ctl.pc \in {"join_thread", "join_mic", "join_spk"}
    /\ LET h == JoinHandle(ctl.pc)
       IN  \/ /\ ~IsAlive(h)
              /\ ctl' = [ctl EXCEPT !.pc = AfterJoin(ctl.pc)]
           \/ /\ IsAlive(h)
              /\ JoinTimesOut(h)
              /\ ctl' = [ctl EXCEPT !.pc = AfterJoin(ctl.pc)]
    /\ UNCHANGED <<is_recording, workers, audio_queue, mic_queue, speaker_queue,
                   hasMicQ, hasSpkQ, thread, mic_thread, speaker_thread, nframes,
                   lastChunk, silent, dualFailed>>
    /\ UNCHANGED <<open_streams, started_at>>

\* stop() lines 567-573: one iteration of the drain loop, or its exit and return
Drain ==
    /\ ctl.pc = "drain"
    /\ IF audio_queue # <<>>
       THEN /\ audio_queue' = Tail(audio_queue)
            /\ UNCHANGED ctl
       ELSE /\ ctl' = [ctl EXCEPT !.pc = "idle"]
            /\ UNCHANGED audio_queue
    /\ UNCHANGED <<is_recording, workers, mic_queue, speaker_queue,
                   hasMicQ, hasSpkQ, thread, mic_thread, speaker_thread, nframes,
                   lastChunk, silent, dualFailed>>
    /\ UNCHANGED <<open_streams, started_at>>

StopStep == Join \/ Drain

(* --------------------------- web application -------------------------- *)
\* app.py: the socket handlers run on the server's threads, record_audio on
\* the thread handle_start_recording spawns.  recThreads[t].stream is the
\* state of the stream that thread opened; the global audio_stream names the
\* thread whose stream was opened last.
RecThread(dev) == [dev |-> dev, pc |-> "open", stream |-> "none"]
RecIds == DOMAIN recThreads

\* handle_start_recording, lines 685-707
HandleStartRecording(dev) ==
    /\ IF recording_active
       THEN /\ webEvent' = "error"
            /\ UNCHANGED <<recording_active, recording_paused, recThreads,
                           live_transcript>>
       ELSE /\ Len(recThreads) < MaxRecThreads
            /\ recording_active' = TRUE
            /\ recording_paused' = FALSE
            /\ live_transcript' = 0
            /\ recThreads' = Append(recThreads, RecThread(dev))
            /\ webEvent' = "recording_status"
    /\ UNCHANGED audio_stream

\* handle_stop_recording, lines 709-714: the flag is cleared, nothing is joined
HandleStopRecording ==
    /\ recording_active' = FALSE
    /\ webEvent' = "recording_complete"
    /\ UNCHANGED <<recording_paused, recThreads, audio_stream, live_transcript>>

\* handle_pause_recording and handle_resume_recording, lines 716-726
HandlePause(paused) ==
    /\ recording_paused' = paused
    /\ webEvent' = "recording_status"
    /\ UNCHANGED <<recording_active, recThreads, audio_stream, live_transcript>>

\* handle_reset_transcript, lines 728-733
HandleResetTranscript ==
    /\ live_transcript' = 0
    /\ webEvent' = "recording_status"
    /\ UNCHANGED <<recording_active, recording_paused, recThreads, audio_stream>>

\* record_audio's `finally` (lines 800-806) run by thread t: the stream the
\* GLOBAL audio_stream names is stopped and closed (on one closed already,
\* stop_stream raises); thread t returns
RecFinally(t) ==
    recThreads' = [i \in RecIds |->
        LET r == IF i = t THEN [recThreads[i] EXCEPT !.pc = "done"] ELSE recThreads[i]
        IN  IF i = audio_stream THEN [r EXCEPT !.stream = "closed"] ELSE r]

\* lines 746-757: p.open() succeeded
RecOpenOk(t) ==
    /\ recThreads[t].pc = "open"
    /\ recThreads' = [recThreads EXCEPT ![t].pc = "loop", ![t].stream = "open"]
    /\ audio_stream' = t
    /\ UNCHANGED <<recording_active, recording_paused, live_transcript, webEvent>>

\* get_device_info_by_index or p.open() raised: except (795-799), finally
RecOpenFail(t) ==
    /\ recThreads[t].pc = "open"
    /\ RecFinally(t)
    /\ webEvent' = "error"
    /\ UNCHANGED <<recording_active, recording_paused, audio_stream, live_transcript>>

\* `while recording_active:` and the pause test, lines 762-765
RecLoop(t) ==
    /\ recThreads[t].pc = "loop"
    /\ IF ~recording_active
       THEN RecFinally(t)
       ELSE /\ ~recording_paused
            /\ recThreads' = [recThreads EXCEPT ![t].pc = "read"]
    /\ UNCHANGED <<recording_active, recording_paused, audio_stream, live_transcript,
                   webEvent>>

\* line 770: audio_stream.read() returned a chunk of the stream the global names
RecReadReturn(t) ==
    /\ recThreads[t].pc = "read"
    /\ audio_stream \in RecIds
    /\ recThreads[audio_stream].stream = "open"
    /\ recThreads' = [recThreads EXCEPT ![t].pc = "transcribe"]
    /\ UNCHANGED <<recording_active, recording_paused, audio_stream, live_transcript,
                   webEvent>>

\* line 770 raised (I/O error, or the stream was closed by another thread)
RecReadError(t) ==
    /\ recThreads[t].pc = "read"
    /\ RecFinally(t)
    /\ webEvent' = "error"
    /\ UNCHANGED <<recording_active, recording_paused, audio_stream, live_transcript>>

\* lines 775-793: assistant.transcribe_audio(audio_np) runs on this thread
\* and returns a text or "" (it catches its own exceptions)
RecTranscribed(t, text) ==
    /\ recThreads[t].pc = "transcribe"
    /\ recThreads' = [recThreads EXCEPT ![t].pc = "loop"]
    /\ IF text
       THEN /\ live_transcript' = IF live_transcript < MaxTranscript
                                  THEN live_transcript + 1 ELSE live_transcript
            /\ webEvent' = "transcript_update"
       ELSE UNCHANGED <<live_transcript, webEvent>>
    /\ UNCHANGED <<recording_active, recording_paused, audio_stream>>

(* ----------------------------- transcriber --------------------------- *)
\* backend/transcriber.py.  A text is a sequence of characters.  Whisper's
\* probabilities are kept in hundredths: avg_logprob -0.8 is -80,
\* no_speech_prob 0.6 is 60.
CONFIDENCE_THRESHOLD == -80
NO_SPEECH_THRESHOLD == 60
\* _correct_with_groq line 129: `len(uncertain_text) * 3`
LengthFactor == 3
\* main.py line 80: `len(transcript.strip()) > 10`
MinDisplayLen == 10

Sp == " "
Empty == <<>>
\* the segment texts the engine produces: none, a one-letter and a six-letter
\* phrase, with the leading blank Whisper puts before a segment
SegTexts == { Empty, <<Sp, "a">>, <<Sp, "b", "b", "b", "b", "b", "b">> }
Confidences == {-90, -80, -50}
NoSpeechProbs == {60, 90}
Segment(text, avg_logprob, no_speech_prob) ==
    [text |-> text, avg_logprob |-> avg_logprob, no_speech_prob |-> no_speech_prob]
SegmentSet == { Segment(t, c, n) : t \in SegTexts, c \in Confidences, n \in NoSpeechProbs }
SegLists == UNION { [1..n -> SegmentSet] : n \in 0..MaxSegs }

\* what the completion service answers: a blank reply, a three-letter and a
\* four-letter phrase; or the call raises (network error, timeout)
GroqError == <<"CorrectionServiceError">>
Replies == { <<Sp>>, <<"c", "c", "c">>, <<Sp, "c", "c", "c", "c">>, GroqError }
\* an exception leaving transcribe_audio
TranscriptionEngineError == <<"TranscriptionEngineError">>

\* str.strip()
RECURSIVE LStrip(_)
LStrip(s) == IF s # <<>> /\ Head(s) = Sp THEN LStrip(Tail(s)) ELSE s
RECURSIVE RStrip(_)
RStrip(s) == IF s # <<>> /\ s[Len(s)] = Sp THEN RStrip(SubSeq(s, 1, Len(s) - 1)) ELSE s
Strip(s) == RStrip(LStrip(s))

\* ' '.join(parts)
RECURSIVE JoinSp(_)
JoinSp(parts) ==
    IF parts = <<>> THEN <<>>
    ELSE IF Len(parts) = 1 THEN parts[1]
    ELSE parts[1] \o <<Sp>> \o JoinSp(Tail(parts))

\* str.replace(pat, '')
RECURSIVE Remove(_, _)
Remove(s, pat) ==
    IF Len(s) < Len(pat) THEN s
    ELSE IF SubSeq(s, 1, Len(pat)) = pat
         THEN Remove(SubSeq(s, Len(pat) + 1, Len(s)), pat)
         ELSE <<Head(s)>> \o Remove(Tail(s), pat)

OpenMark == <<"[", "?", "]">>
CloseMark == <<"[", "/", "?", "]">>
\* line 79: f"[?]{text}[/?]"
Placeholder(text) == OpenMark \o text \o CloseMark

\* result['text'] of the engine: the decoded text of all its segments
RECURSIVE EngineText(_)
EngineText(segs) == IF segs = <<>> THEN <<>> ELSE Head(segs).text \o EngineText(Tail(segs))

\* a plausible slip: `>=` for `>`
Dropped_AtThreshold(seg) == seg.no_speech_prob >= NO_SPEECH_THRESHOLD

\* lines 69 and 187: `if no_speech_prob > 0.6: continue`
Dropped(seg) == seg.no_speech_prob > NO_SPEECH_THRESHOLD

\* a plausible slip: segments are flagged only until the session has shown
\* a first transcript line, as if the gate were a warm-up of the session
Flagged_WarmUp(seg) == seg.avg_logprob < CONFIDENCE_THRESHOLD /\ transcript_display = 0

\* a plausible slip: `<=` for `<`
Flagged_AtThreshold(seg) == seg.avg_logprob <= CONFIDENCE_THRESHOLD

\* lines 72 and 190: `if avg_logprob < self.CONFIDENCE_THRESHOLD`
Flagged(seg) == seg.avg_logprob < CONFIDENCE_THRESHOLD

\* transcribe_audio lines 60-82: the loop over the segments from segment i on,
\* with final_parts fp and flagged_parts fl built so far
RECURSIVE Scan(_, _, _, _)
Scan(segs, i, fp, fl) ==
    IF i > Len(segs) THEN [final_parts |-> fp, flagged_parts |-> fl]
    ELSE LET seg == segs[i]
             text == Strip(seg.text)
         IN  IF Dropped(seg) THEN Scan(segs, i + 1, fp, fl)
             ELSE IF Flagged(seg)
                  THEN Scan(segs, i + 1, Append(fp, Placeholder(text)),
                            Append(fl, [text |-> text, index |-> Len(fp) + 1]))
                  ELSE Scan(segs, i + 1, Append(fp, text), fl)

\* lines 86-87: the placeholders' marks are taken out of every part
ContextOf(parts) ==
    JoinSp([p \in 1..Len(parts) |-> Remove(Remove(parts[p], OpenMark), CloseMark)])

\* a plausible slip: `>=` for `>` in the length check
CorrectWithGroq_Strict(uncertain_text, reply) ==
    IF reply = GroqError THEN uncertain_text
    ELSE IF Len(Strip(reply)) >= Len(uncertain_text) * LengthFactor
         THEN uncertain_text ELSE Strip(reply)

\* _correct_with_groq lines 104-136: the reply stripped, or the original phrase
\* when the reply is too long or the call raised
CorrectWithGroq(uncertain_text, reply) ==
    IF reply = GroqError THEN uncertain_text
    ELSE IF Len(Strip(reply)) > Len(uncertain_text) * LengthFactor
         THEN uncertain_text ELSE Strip(reply)

Call(mode, index, phrase, context, reply, returned) ==
    [mode |-> mode, index |-> index, phrase |-> phrase, context |-> context,
     reply |-> reply, returned |-> returned]

\* transcribe_audio lines 39-87 on one frame; ok is whether the engine ran
TranscribeAudio(segs, groq, ok) ==
    /\ trPc = "idle"
    /\ segments' = segs
    /\ groq_client' = groq
    /\ engineFailed' = ~ok
    /\ calls' = <<>>
    /\ fileK' = 0
    /\ IF ~ok
       THEN \* lines 97-99: `except Exception: return ""`
            /\ result' = Empty
            /\ trPc' = "returned"
            /\ UNCHANGED <<final_parts, flagged_parts, full_context>>
       ELSE IF segs = <<>>
       THEN \* lines 56-57
            /\ result' = Strip(EngineText(segs))
            /\ trPc' = "returned"
            /\ UNCHANGED <<final_parts, flagged_parts, full_context>>
       ELSE LET r == Scan(segs, 1, <<>>, <<>>)
            IN  /\ final_parts' = r.final_parts
                /\ IF r.flagged_parts # <<>> /\ groq
                   THEN /\ flagged_parts' = r.flagged_parts
                        /\ full_context' = ContextOf(r.final_parts)
                        /\ trPc' = "correcting"
                        /\ UNCHANGED result
                   ELSE /\ flagged_parts' = <<>>
                        /\ result' = Strip(JoinSp(r.final_parts))
                        /\ trPc' = "returned"
                        /\ UNCHANGED full_context
    /\ dispatched' = "none"
    /\ UNCHANGED transcript_display

\* lines 89-93: one iteration of `for flagged in flagged_parts`
CorrectNext(reply) ==
    /\ trPc = "correcting"
    /\ flagged_parts # <<>>
    /\ LET flagged == Head(flagged_parts)
           corrected == CorrectWithGroq(flagged.text, reply)
       IN  /\ final_parts' = IF corrected # Empty
                             THEN [final_parts EXCEPT ![flagged.index] = corrected]
                             ELSE final_parts
           /\ calls' = Append(calls, Call("audio", flagged.index, flagged.text,
                                          full_context, reply, corrected))
    /\ flagged_parts' = Tail(flagged_parts)
    /\ UNCHANGED <<trPc, segments, groq_client, engineFailed, full_context, fileK,
                   result, transcript_display, dispatched>>

\* line 95: return ' '.join(final_parts).strip()
ReturnText ==
    /\ trPc \in {"correcting", "file_loop"}
    /\ IF trPc = "correcting" THEN flagged_parts = <<>> ELSE fileK > Len(segments)
    /\ result' = Strip(JoinSp(final_parts))
    /\ trPc' = IF trPc = "correcting" THEN "returned" ELSE "file_returned"
    /\ UNCHANGED <<segments, groq_client, engineFailed, final_parts, flagged_parts,
                   full_context, fileK, calls, transcript_display, dispatched>>

\* transcribe_file lines 173-181
TranscribeFile(segs, groq) ==
    /\ trPc = "idle"
    /\ segments' = segs
    /\ groq_client' = groq
    /\ engineFailed' = FALSE
    /\ calls' = <<>>
    /\ final_parts' = <<>>
    /\ flagged_parts' = <<>>
    /\ IF segs = <<>>
       THEN /\ result' = EngineText(segs)
            /\ trPc' = "file_returned"
            /\ fileK' = 0
       ELSE /\ trPc' = "file_loop"
            /\ fileK' = 1
            /\ UNCHANGED result
    /\ dispatched' = "none"
    /\ UNCHANGED <<full_context, transcript_display>>

\* transcribe_file lines 182-195: one iteration of `for seg in segments`
FileStep(reply) ==
    /\ trPc = "file_loop"
    /\ fileK <= Len(segments)
    /\ LET seg == segments[fileK]
           text == Strip(seg.text)
       IN  IF Dropped(seg)
           THEN UNCHANGED <<final_parts, calls>>
           ELSE IF Flagged(seg) /\ groq_client
                THEN LET corrected == CorrectWithGroq(text, reply)
                     IN  /\ final_parts' = Append(final_parts, corrected)
                         /\ calls' = Append(calls, Call("file", Len(final_parts) + 1, text,
                                                        EngineText(segments), reply, corrected))
                ELSE /\ final_parts' = Append(final_parts, text)
                     /\ UNCHANGED calls
    /\ fileK' = fileK + 1
    /\ UNCHANGED <<trPc, segments, groq_client, engineFailed, flagged_parts,
                   full_context, result, transcript_display, dispatched>>

\* a plausible slip: every result is displayed
ShouldDisplay_Always(transcript) == TRUE

\* main.py line 80: `if transcript and len(transcript.strip()) > 10`
ShouldDisplay(transcript) == transcript # Empty /\ Len(Strip(transcript)) > MinDisplayLen

\* the locals of a call are gone when it has returned
Returned ==
    /\ trPc' = "idle"
    /\ segments' = <<>>
    /\ groq_client' = FALSE
    /\ engineFailed' = FALSE
    /\ final_parts' = <<>>
    /\ flagged_parts' = <<>>
    /\ full_context' = <<>>
    /\ fileK' = 0
    /\ calls' = <<>>
    /\ result' = <<>>

\* every segment of the frame was taken for non-speech
AllSilence == segments # <<>> /\ \A i \in 1..Len(segments) : Dropped(segments[i])

\* main.py process_audio lines 77-89: the dispatcher takes the result
ProcessAudio ==
    /\ trPc = "returned"
    /\ Returned
    /\ transcript_display' = IF ShouldDisplay(result) /\ transcript_display < MaxDisplay
                             THEN transcript_display + 1 ELSE transcript_display
    /\ dispatched' = IF ShouldDisplay(result) THEN "displayed"
                     ELSE IF AllSilence /\ ~engineFailed THEN "discarded_silence"
                     ELSE "discarded"

\* the caller of transcribe_file takes the text
FileDone ==
    /\ trPc = "file_returned"
    /\ Returned
    /\ UNCHANGED <<transcript_display, dispatched>>

(* --------------------------- device selection ------------------------- *)
\* meeting_capture.py: how start() finds the device of the loopback role.
\* A catalog entry: isLoopbackDevice, the name, maxInputChannels > 0, and
\* whether _validate_device can open it.  Indices count from 1; NoDevice is
\* Python's None (and -1 for defaultOutputDevice).
DeviceNames == {"speakers", "stereo mix", "line in", "microphone"}
DeviceInfo == [loopback : BOOLEAN, name : DeviceNames, inputs : BOOLEAN, valid : BOOLEAN]
Catalogs == UNION { [1..n -> DeviceInfo] : n \in 0..MaxDevices }

\* the first of the matching indices in enumeration order, None without a match
FirstIndex(matching) ==
    IF matching = {} THEN NoDevice
    ELSE CHOOSE i \in matching : \A j \in matching : i <= j

\* _find_stereo_mix line 492: "stereo mix", "what you hear" or "wave out" in the name
IsStereoMixName(name) == name = "stereo mix"
\* _find_stereo_mix line 503: "output" or "speaker" in the name
IsOutputName(name) == name = "speakers"

\* _find_microphone line 528: "microphone" or "mic" in the name
IsMicName(name) == name = "microphone"

\* _validate_device lines 451-481: what the call returns for a catalog device
ValidateDevice(cat, i) == cat[i].valid

\* get_wasapi_loopback_device lines 138-165: the default output device when it
\* is a loopback device itself, else the first loopback device of the same
\* name; the index is returned as found
GetWasapiLoopbackDevice(cat, wpatch, speakers) ==
    IF ~wpatch \/ speakers = NoDevice THEN NoDevice
    ELSE IF cat[speakers].loopback THEN speakers
    ELSE FirstIndex({ i \in 1..Len(cat) : cat[i].loopback /\ cat[i].name = cat[speakers].name })

\* _find_stereo_mix lines 483-520
FindStereoMix(cat, wpatch, speakers) ==
    LET loopback == GetWasapiLoopbackDevice(cat, wpatch, speakers)
        first == FirstIndex({ i \in 1..Len(cat) : /\ cat[i].inputs
                                                   /\ IsStereoMixName(cat[i].name)
                                                   /\ ValidateDevice(cat, i) })
        second == FirstIndex({ i \in 1..Len(cat) : /\ cat[i].inputs
                                                    /\ IsOutputName(cat[i].name)
                                                    /\ ValidateDevice(cat, i) })
    IN  IF wpatch /\ loopback # NoDevice THEN loopback
        ELSE IF first # NoDevice THEN first
        ELSE second

\* start() lines 189-193: the loopback role of dual capture
SelectSpeaker(cat, wpatch, speakers) ==
    /\ selPc = "idle"
    /\ validation.pc = "idle"
    /\ selPc' = "selected"
    /\ catalog' = cat
    /\ using_wpatch' = wpatch
    /\ default_speakers' = speakers
    /\ speaker_index' =
          IF wpatch
          THEN LET l == GetWasapiLoopbackDevice(cat, wpatch, speakers)
               IN  IF l = NoDevice THEN FindStereoMix(cat, wpatch, speakers) ELSE l
          ELSE FindStereoMix(cat, wpatch, speakers)
    /\ UNCHANGED <<default_input, mic_index, validation>>

\* a plausible slip: the default input is returned without the validation
FindMicrophone_DefaultUnchecked(cat, default) ==
    LET first == FirstIndex({ i \in 1..Len(cat) : /\ cat[i].inputs
                                                   /\ IsMicName(cat[i].name)
                                                   /\ ValidateDevice(cat, i) })
    IN  IF first # NoDevice THEN first ELSE default

\* _find_microphone lines 522-543: the first input device with a microphone
\* name that validates, else the default input device if there is one
\* (get_default_input_device_info raises without one) and it validates
FindMicrophone(cat, default) ==
    LET first == FirstIndex({ i \in 1..Len(cat) : /\ cat[i].inputs
                                                   /\ IsMicName(cat[i].name)
                                                   /\ ValidateDevice(cat, i) })
    IN  IF first # NoDevice THEN first
        ELSE IF default # NoDevice /\ ValidateDevice(cat, default) THEN default
        ELSE NoDevice

\* the devices the OS can name as default input: none, or an input device
DefaultInputs(cat) == {NoDevice} \cup { i \in 1..Len(cat) : cat[i].inputs }

\* start() line 186: the microphone role
SelectMicrophone(cat, default) ==
    /\ selPc = "idle"
    /\ validation.pc = "idle"
    /\ selPc' = "mic_selected"
    /\ catalog' = cat
    /\ default_input' = default
    /\ mic_index' = FindMicrophone(cat, default)
    /\ UNCHANGED <<using_wpatch, default_speakers, speaker_index, validation>>

\* start() goes on with the index; the lookup's locals are gone
SelectDone ==
    /\ selPc \in {"selected", "mic_selected"}
    /\ selPc' = "idle"
    /\ catalog' = <<>>
    /\ using_wpatch' = FALSE
    /\ default_speakers' = NoDevice
    /\ speaker_index' = NoDevice
    /\ default_input' = NoDevice
    /\ mic_index' = NoDevice
    /\ UNCHANGED validation

\* _validate_device, step by step.  known: get_device_info_by_index has an
\* entry for the index; info: that entry; probe: the test stream.
NoValidation ==
    [pc |-> "idle", known |-> FALSE, info |-> <<>>, probe |-> "none", ret |-> "none"]

\* a plausible slip: only the open is inside the try
Caught_OpenOnly(step) == step = "open"

\* lines 453 and 480: the `try` spans the info lookup and the open, and
\* `except Exception` takes whatever they raise
Caught(step) == step \in {"info", "open"}

\* lines 480-481 for an exception raised at the given step: return False
OnException(step) ==
    IF Caught(step)
    THEN validation' = [validation EXCEPT !.pc = "returned", !.ret = "false"]
    ELSE validation' = [validation EXCEPT !.pc = "raised"]

\* _validate_device is called with an index
ValidateBegin(info, known) ==
    /\ selPc = "idle"
    /\ validation.pc = "idle"
    /\ validation' = [NoValidation EXCEPT !.pc = "info", !.known = known, !.info = info]
    /\ UNCHANGED <<selPc, catalog, using_wpatch, default_speakers, speaker_index,
                   default_input, mic_index>>

\* line 455: self.p.get_device_info_by_index(device_index)
ValidateGetInfo ==
    /\ validation.pc = "info"
    /\ IF validation.known
       THEN validation' = [validation EXCEPT !.pc = "open"]
       ELSE OnException("info")
    /\ UNCHANGED <<selPc, catalog, using_wpatch, default_speakers, speaker_index,
                   default_input, mic_index>>

\* lines 458-476: self.p.open() with the loopback or the regular settings
ValidateOpen ==
    /\ validation.pc = "open"
    /\ IF validation.info.valid
       THEN validation' = [validation EXCEPT !.pc = "close", !.probe = "open"]
       ELSE OnException("open")
    /\ UNCHANGED <<selPc, catalog, using_wpatch, default_speakers, speaker_index,
                   default_input, mic_index>>

\* lines 478-479: test_stream.close(); return True
ValidateClose ==
    /\ validation.pc = "close"
    /\ validation' = [validation EXCEPT !.pc = "returned", !.probe = "closed", !.ret = "true"]
    /\ UNCHANGED <<selPc, catalog, using_wpatch, default_speakers, speaker_index,
                   default_input, mic_index>>

\* the caller has the answer (or the exception)
ValidateDone ==
    /\ validation.pc \in {"returned", "raised"}
    /\ validation' = NoValidation
    /\ UNCHANGED <<selPc, catalog, using_wpatch, default_speakers, speaker_index,
                   default_input, mic_index>>

(* --------------------------- frame processing ------------------------- *)
\* meeting_capture.py: what a capture loop does to one chunk between
\* stream.read() and the put, and what _try_mix_audio does to a pair.  A float
\* sample is kept in ten-thousandths: 1.0 is One.
One == 10000
\* line 312: `/ 32768.0`
PCM_SCALE == 32768
\* line 317: `* 0.95`
PEAK == 9500
\* line 320: `< 0.01`
GATE == 100
\* lines 327 and 403: `if actual_rate != 16000`
CANONICAL_RATE == 16000

Rates == {CANONICAL_RATE, 2 * CANONICAL_RATE}
\* int16 samples: silence, two quiet ones (0.005 and 0.01) and minus half scale
PcmSamples == {0, 164, 328, -16384}
\* stream.read(chunk_samples): chunk_samples samples for each channel
ChunkSamples(rate) == (rate * ChunkFrames) \div CANONICAL_RATE
Chunks(rate, ch) == [1..(ChunkSamples(rate) * ch) -> PcmSamples]
\* float samples of the frames waiting on the per-source queues
Samples == {-PEAK, 0, 95, PEAK}
Frames == UNION { [1..n -> Samples] : n \in 1..MaxSamples }

Abs(x) == IF x < 0 THEN -x ELSE x
\* float division, rounded towards zero at the resolution kept
Quot(x, d) == IF x < 0 THEN -((-x) \div d) ELSE x \div d
Min(a, b) == IF a < b THEN a ELSE b
\* np.max(np.abs(audio))
MaxAbs(audio) ==
    CHOOSE m \in { Abs(audio[i]) : i \in 1..Len(audio) } :
        \A i \in 1..Len(audio) : Abs(audio[i]) <= m

\* lines 312 and 396: np.frombuffer(...).astype(np.float32) / 32768.0
ToFloat(data) == [i \in 1..Len(data) |-> Quot(data[i] * One, PCM_SCALE)]

\* lines 315-317: scale so that the peak becomes 0.95, unless the chunk is all zero
Normalize(audio) ==
    LET max_val == MaxAbs(audio)
    IN  IF max_val > 0
        THEN [i \in 1..Len(audio) |-> Quot(audio[i] * PEAK, max_val)]
        ELSE audio

\* line 320: audio_np[np.abs(audio_np) < 0.01] = 0
NoiseGate(audio) ==
    [i \in 1..Len(audio) |-> IF Abs(audio[i]) < GATE THEN 0 ELSE audio[i]]

\* lines 324 and 400: audio_np.reshape(-1, 2).mean(axis=1)
ToMono(audio) ==
    [i \in 1..(Len(audio) \div 2) |-> Quot(audio[2 * i - 1] + audio[2 * i], 2)]

\* a plausible slip: the rate ratio is taken upside down
Resample_Inverted(audio, orig_sr, target_sr) ==
    IF orig_sr = target_sr THEN audio
    ELSE [j \in 1..((Len(audio) * orig_sr) \div target_sr) |->
             audio[((j - 1) * target_sr) \div orig_sr + 1]]

\* _resample lines 343-354: np.linspace(0, len - 1, target_length) and np.interp
Resample(audio, orig_sr, target_sr) ==
    IF orig_sr = target_sr THEN audio
    ELSE LET n == Len(audio)
             target_length == (n * target_sr) \div orig_sr
             At(j) == \* the sample at index (j - 1) * (n - 1) / (target_length - 1)
                 IF target_length = 1 THEN audio[1]
                 ELSE LET num == (j - 1) * (n - 1)
                          den == target_length - 1
                          lo == num \div den
                          rem == num % den
                      IN  IF rem = 0 THEN audio[lo + 1]
                          ELSE audio[lo + 1]
                                 + Quot((audio[lo + 2] - audio[lo + 1]) * rem, den)
         IN  [j \in 1..target_length |-> At(j)]

\* _capture_loop lines 308-328: the chunk as it is put on audio_queue
ProcessSingle(data, rate) ==
    LET chunk_samples == ChunkSamples(rate)
        gated == NoiseGate(Normalize(ToFloat(data)))
        mono == IF Len(gated) > chunk_samples
                THEN IF Len(gated) % 2 = 0 THEN ToMono(gated)
                     ELSE SubSeq(gated, 1, chunk_samples)
                ELSE gated
    IN  IF rate # CANONICAL_RATE THEN Resample(mono, rate, CANONICAL_RATE) ELSE mono

\* _capture_loop_dual lines 392-404: the chunk as it is put on its source's queue
ProcessDual(data, rate, ch) ==
    LET float == ToFloat(data)
        mono == IF ch = 2 THEN ToMono(float) ELSE float
    IN  IF rate # CANONICAL_RATE THEN Resample(mono, rate, CANONICAL_RATE) ELSE mono

\* a plausible slip: the sum is not halved
MixSamples_Sum(m, s) ==
    [i \in 1..Min(Len(m), Len(s)) |-> m[i] + s[i]]

\* _try_mix_audio lines 441-446: both cut to the shorter length, then averaged
MixSamples(m, s) ==
    LET min_len == Min(Len(m), Len(s))
    IN  [i \in 1..min_len |-> Quot(SubSeq(m, 1, min_len)[i] + SubSeq(s, 1, min_len)[i], 2)]

\* one pass of a capture loop's body: a loopback stream is opened with two
\* channels (lines 264-274, 369-371), any other with one
CaptureFrame(src, is_loopback, rate, data) ==
    /\ frPc = "idle"
    /\ frPc' = "pushed"
    /\ source_name' = src
    /\ actual_rate' = rate
    /\ channels' = IF is_loopback THEN 2 ELSE 1
    /\ audio_data' = data
    /\ audio_np' = IF src = "single" THEN ProcessSingle(data, rate)
                   ELSE ProcessDual(data, rate, IF is_loopback THEN 2 ELSE 1)
    /\ UNCHANGED <<mic_audio, speaker_audio, mixed>>

\* _try_mix_audio lines 437-449 on the two frames it dequeued
MixAudio(m, s) ==
    /\ frPc = "idle"
    /\ frPc' = "mixed"
    /\ mic_audio' = m
    /\ speaker_audio' = s
    /\ mixed' = MixSamples(m, s)
    /\ UNCHANGED <<source_name, actual_rate, channels, audio_data, audio_np>>

\* the frame is on its queue; the loop's locals are gone
FrameDone ==
    /\ frPc \in {"pushed", "mixed"}
    /\ frPc' = "idle"
    /\ source_name' = "none"
    /\ actual_rate' = CANONICAL_RATE
    /\ channels' = 1
    /\ audio_data' = <<>>
    /\ audio_np' = <<>>
    /\ mic_audio' = <<>>
    /\ speaker_audio' = <<>>
    /\ mixed' = <<>>

(* ------------------------------ the system ---------------------------- *)
CapInit ==
    /\ is_recording = FALSE
    /\ workers = <<>>
    /\ audio_queue = <<>>
    /\ mic_queue = <<>>
    /\ speaker_queue = <<>>
    /\ hasMicQ = FALSE
    /\ hasSpkQ = FALSE
    /\ thread = NoThread
    /\ mic_thread = NoThread
    /\ speaker_thread = NoThread
    /\ ctl = Idle
    /\ nframes = 0
    /\ lastChunk = None
    /\ silent = TRUE
    /\ dualFailed = FALSE
    /\ open_streams = 0
    /\ started_at = 0

WebInit ==
    /\ recording_active = FALSE
    /\ recording_paused = FALSE
    /\ recThreads = <<>>
    /\ audio_stream = NoThread
    /\ live_transcript = 0
    /\ webEvent = "none"

TrInit ==
    /\ trPc = "idle"
    /\ segments = <<>>
    /\ groq_client = FALSE
    /\ engineFailed = FALSE
    /\ final_parts = <<>>
    /\ flagged_parts = <<>>
    /\ full_context = <<>>
    /\ fileK = 0
    /\ calls = <<>>
    /\ result = <<>>
    /\ transcript_display = 0
    /\ dispatched = "none"

SelInit ==
    /\ selPc = "idle"
    /\ catalog = <<>>
    /\ using_wpatch = FALSE
    /\ default_speakers = NoDevice
    /\ speaker_index = NoDevice
    /\ default_input = NoDevice
    /\ mic_index = NoDevice
    /\ validation = NoValidation

FrInit ==
    /\ frPc = "idle"
    /\ source_name = "none"
    /\ actual_rate = CANONICAL_RATE
    /\ channels = 1
    /\ audio_data = <<>>
    /\ audio_np = <<>>
    /\ mic_audio = <<>>
    /\ speaker_audio = <<>>
    /\ mixed = <<>>

Init == CapInit /\ WebInit /\ TrInit /\ SelInit /\ FrInit

\* the capture pipeline runs; the web application is another process
Cap(A) == A /\ UNCHANGED <<webVars, trVars, selVars, frVars>>

Next ==
    \/ Cap(\E w \in WorkerIds : OpenOk(w))
    \/ Cap(\E w \in WorkerIds : OpenFail(w))
    \/ Cap(\E w \in WorkerIds : CreateMicQueue(w))
    \/ Cap(\E w \in WorkerIds : CreateSpeakerQueue(w))
    \/ Cap(\E w \in WorkerIds : LoopCheck(w))
    \/ Cap(\E w \in WorkerIds : ReadReturn(w))
    \/ Cap(\E w \in WorkerIds : ReadError(w))
    \/ Cap(\E w \in WorkerIds : MixCheck(w))
    \/ Cap(\E w \in WorkerIds : MixGetMic(w))
    \/ Cap(\E w \in WorkerIds : MixGetSpeaker(w))
    \/ Cap(GetAudioChunk)
    \/ Cap(\E both \in BOOLEAN : StartBegin(both))
    \/ Cap(\E mic \in {MicDevice, NoDevice}, speaker \in {LoopbackDevice, NoDevice} :
              StartDual(mic, speaker))
    \/ Cap(\E dev \in Devices \cup {NoDevice} : StartSingle(dev))
    \/ Cap(StopBegin)
    \/ Cap(Join)
    \/ Cap(Drain)

Spec == Init /\ [][Next]_vars

\* Sessions that do not overlap: the caller issues start() only when no
\* capture worker of an earlier session is still alive.
SessionNext ==
    \/ Cap(\E w \in WorkerIds : OpenOk(w))
    \/ Cap(\E w \in WorkerIds : OpenFail(w))
    \/ Cap(\E w \in WorkerIds : CreateMicQueue(w))
    \/ Cap(\E w \in WorkerIds : CreateSpeakerQueue(w))
    \/ Cap(\E w \in WorkerIds : LoopCheck(w))
    \/ Cap(\E w \in WorkerIds : ReadReturn(w))
    \/ Cap(\E w \in WorkerIds : ReadError(w))
    \/ Cap(\E w \in WorkerIds : MixCheck(w))
    \/ Cap(\E w \in WorkerIds : MixGetMic(w))
    \/ Cap(\E w \in WorkerIds : MixGetSpeaker(w))
    \/ Cap(GetAudioChunk)
    \/ Cap(\E both \in BOOLEAN : workers = <<>> /\ StartBegin(both))
    \/ Cap(\E mic \in {MicDevice, NoDevice}, speaker \in {LoopbackDevice, NoDevice} :
              StartDual(mic, speaker))
    \/ Cap(\E dev \in Devices \cup {NoDevice} : StartSingle(dev))
    \/ Cap(StopBegin)
    \/ Cap(Join)
    \/ Cap(Drain)

SessionSpec == Init /\ [][SessionNext]_vars

\* the control thread is scheduled and a join's timeout expires; nothing is
\* assumed of the capture workers: a device read may never return
FairSessionSpec == SessionSpec /\ WF_vars(Cap(StopStep))

\* the web application runs; the capture pipeline is another process
Web(A) == A /\ UNCHANGED <<capVars, trVars, selVars, frVars>>

WebNext ==
    \/ Web(\E dev \in Devices : HandleStartRecording(dev))
    \/ Web(HandleStopRecording)
    \/ Web(\E paused \in BOOLEAN : HandlePause(paused))
    \/ Web(HandleResetTranscript)
    \/ Web(\E t \in RecIds : RecOpenOk(t))
    \/ Web(\E t \in RecIds : RecOpenFail(t))
    \/ Web(\E t \in RecIds : RecLoop(t))
    \/ Web(\E t \in RecIds : RecReadReturn(t))
    \/ Web(\E t \in RecIds : RecReadError(t))
    \/ Web(\E t \in RecIds, text \in BOOLEAN : RecTranscribed(t, text))

WebSpec == Init /\ [][WebNext]_vars

\* the transcriber and its dispatcher run; capture is modelled by Spec
Tr(A) == A /\ UNCHANGED <<capVars, webVars, selVars, frVars>>

TrNext ==
    \/ Tr(trPc = "idle" /\ \E segs \in SegLists, groq \in BOOLEAN, ok \in BOOLEAN :
                                 TranscribeAudio(segs, groq, ok))
    \/ Tr(\E reply \in Replies : CorrectNext(reply))
    \/ Tr(ReturnText)
    \/ Tr(ProcessAudio)
    \/ Tr(trPc = "idle" /\ \E segs \in SegLists, groq \in BOOLEAN : TranscribeFile(segs, groq))
    \/ Tr(\E reply \in Replies : FileStep(reply))
    \/ Tr(FileDone)

TrSpec == Init /\ [][TrNext]_vars

\* role selection alone
Sel(A) == A /\ UNCHANGED <<capVars, webVars, trVars, frVars>>

SelNext ==
    \/ Sel(selPc = "idle" /\ \E cat \in Catalogs, wpatch \in BOOLEAN :
                              \E speakers \in 0..Len(cat) : SelectSpeaker(cat, wpatch, speakers))
    \/ Sel(selPc = "idle" /\ \E cat \in Catalogs :
                              \E default \in DefaultInputs(cat) : SelectMicrophone(cat, default))
    \/ Sel(SelectDone)
    \/ Sel(validation.pc = "idle" /\ \E info \in DeviceInfo, known \in BOOLEAN :
                                        ValidateBegin(info, known))
    \/ Sel(ValidateGetInfo)
    \/ Sel(ValidateOpen)
    \/ Sel(ValidateClose)
    \/ Sel(ValidateDone)

SelSpec == Init /\ [][SelNext]_vars

\* the processing of single frames and pairs, apart from the threads
Fr(A) == A /\ UNCHANGED <<capVars, webVars, trVars, selVars>>

FrameNext ==
    \/ Fr(frPc = "idle" /\ \E src \in {"single", "mic", "speaker"}, is_loopback \in BOOLEAN,
                                rate \in Rates :
             \E data \in Chunks(rate, IF is_loopback THEN 2 ELSE 1) :
                 CaptureFrame(src, is_loopback, rate, data))
    \/ Fr(frPc = "idle" /\ \E m \in Frames, sp \in Frames : MixAudio(m, sp))
    \/ Fr(FrameDone)

FrameSpec == Init /\ [][FrameNext]_vars

(* ------------------------------- claims ------------------------------- *)
InStart == ctl.pc = "starting"
InStop == ctl.pc \in {"join_thread", "join_mic", "join_spk", "drain"}

\* C1: start() called on a session that is already active fails fast: when it
\* returns, no capture worker has been spawned and the workers, the thread
\* attributes, the queues and the active flag are as they were.
C1_StartWhileActiveFailsFast ==
    [][(InStart /\ ctl.wasActive /\ ctl'.pc = "idle")
         => /\ workers' = workers
            /\ <<thread, mic_thread, speaker_thread>>' = <<thread, mic_thread, speaker_thread>>
            /\ <<audio_queue, mic_queue, speaker_queue>>' = <<audio_queue, mic_queue, speaker_queue>>
            /\ is_recording' = is_recording]_vars

\* C2: at most one stream is open per device at any time, after any sequence
\* of start() and stop() calls.
C2_OneStreamPerDevice ==
    \A v, w \in WorkerIds :
        (v # w /\ StreamOpen(v) /\ StreamOpen(w)) => workers[v].dev # workers[w].dev

\* C3: stop() always returns: every stop() that was entered comes back to
\* the caller with the session marked inactive, whatever the capture workers
\* do (under FairSessionSpec a worker may stay inside its device read forever;
\* each join then gives up and the worker is abandoned).
C3_StopReturns == InStop ~> (ctl.pc = "idle" /\ ~is_recording)

\* the same as a state property: inside stop() the session is inactive and
\* the control thread's next step is enabled
StopNeverBlocks == InStop => (~is_recording /\ ENABLED Cap(StopStep))

\* C3's case: stop() has returned, the session is inactive, and the worker
\* self.thread names was abandoned inside its device read.
C3_Witness ==
    /\ ctl.pc = "idle"
    /\ ~is_recording
    /\ IsAlive(thread)
    /\ workers[thread].cancelled
    /\ workers[thread].pc = "reading"

\* C4: when stop() returns, every queue has been drained: the shared output
\* queue and both per-source queues hold no frame.
C4_StopDrainsEveryQueue ==
    [][(ctl.pc = "drain" /\ ctl'.pc = "idle")
         => (audio_queue' = <<>> /\ mic_queue' = <<>> /\ speaker_queue' = <<>>)]_vars

\* C5: once stop() has flipped the cancellation flag, a capture worker that
\* reaches its loop check starts no further device read.
C5_CancelledWorkerStartsNoRead ==
    [][\A w \in WorkerIds :
          (workers[w].cancelled /\ workers[w].pc = "loop")
              => workers' # [workers EXCEPT ![w].pc = "reading"]]_vars

\* the worker's blocking get() waits for one frame of the queue that only its
\* sibling feeds, and that frame is all its synchronizer call still needs
BlockedOnSibling(w) ==
    \/ /\ workers[w].kind = "mic"
       /\ workers[w].pc = "mix_get_spk"
       /\ speaker_queue = <<>>
    \/ /\ workers[w].kind = "speaker"
       /\ workers[w].pc = "mix_get_mic"
       /\ mic_queue = <<>>
       /\ speaker_queue # <<>>

\* the other worker of w's dual session has ended on an exception
SiblingFailed(w) ==
    /\ dualFailed
    /\ IF workers[w].kind = "mic" THEN speaker_thread = DeadThread
                                  ELSE mic_thread = DeadThread

\* C6: in dual-capture mode a worker whose sibling has failed is never halted
\* by that failure: while the session is active it is not left waiting for a
\* frame that only the failed sibling could have supplied.
C6_SiblingNeverHalted ==
    \A w \in WorkerIds :
        (IsDual(w) /\ is_recording /\ SiblingFailed(w)) => ~BlockedOnSibling(w)

\* what does hold of a failure: the step in which a dual worker fails (its
\* stream does not open, or a read or the put raises) leaves the cancellation
\* flag and the queues as they were.
FailureStepSparesFlag ==
    [][\A w \in WorkerIds :
          (IsDual(w) /\ workers[w].pc \in {"open", "reading"}
                     /\ workers' = RemoveAt(workers, w))
              => /\ is_recording' = is_recording
                 /\ <<audio_queue, mic_queue, speaker_queue>>'
                      = <<audio_queue, mic_queue, speaker_queue>>
                 /\ <<hasMicQ, hasSpkQ>>' = <<hasMicQ, hasSpkQ>>]_vars

\* C7: a synchronizer invocation never dequeues from one queue only: a worker
\* that has taken a frame off the microphone queue finds a loopback frame to
\* pair it with.
C7_PairOrNothing ==
    \A w \in WorkerIds : workers[w].pc = "mix_get_spk" => speaker_queue # <<>>

\* C8: as long as only the microphone worker of dual capture has produced
\* frames (the loopback never has), the synchronizer has emitted nothing: the
\* shared output queue is empty and the dispatcher's last poll returned None.
C8_SilentLoopbackNoOutput ==
    silent => (audio_queue = <<>> /\ lastChunk = None)

\* C8's case: two microphone frames are waiting for a partner, the loopback
\* worker runs and has produced nothing, and the microphone worker is back
\* at its loop after the synchronizer declined to mix.
C8_Witness ==
    /\ silent
    /\ Len(mic_queue) >= 2
    /\ hasSpkQ /\ speaker_queue = <<>>
    /\ IsAlive(speaker_thread)
    /\ IsAlive(mic_thread) /\ workers[mic_thread].pc = "loop"
    /\ lastChunk = None

\* C9: a dispatcher poll on an empty shared queue returns None and leaves the
\* queue unchanged; on a non-empty queue it removes and returns exactly the
\* head frame.  (A step changes lastChunk iff it is a poll with a new result;
\* outside stop()'s drain loop only a poll removes the head.)
C9_PollReturnsHeadOrNone ==
    [][/\ (lastChunk' # lastChunk)
            => IF audio_queue = <<>>
               THEN lastChunk' = None /\ audio_queue' = audio_queue
               ELSE lastChunk' = Head(audio_queue) /\ audio_queue' = Tail(audio_queue)
       /\ (audio_queue # <<>> /\ audio_queue' = Tail(audio_queue) /\ ctl.pc # "drain")
            => lastChunk' = Head(audio_queue)]_vars

\* C9's case: the dispatcher holds a frame it pulled while a later frame is
\* still queued behind it.
C9_Witness ==
    /\ lastChunk.src \in {"single", "mixed"}
    /\ audio_queue # <<>>
    /\ Head(audio_queue).a > lastChunk.a

\* C10: transcription never runs on a capture thread: no thread that reads
\* the device is inside transcribe_audio.
C10_NoTranscriptionOnCaptureThread ==
    /\ \A w \in WorkerIds : workers[w].pc # "transcribe"
    /\ \A t \in RecIds : recThreads[t].pc # "transcribe"

\* the workers spawned by the step
Spawned == { workers'[i] : i \in (Len(workers) + 1)..Len(workers') }

\* C19: when device selection finds no device for a requested role, start()
\* fails: as start() returns, either it reports failure, has spawned no
\* worker and the session is inactive, or it has spawned the full set of
\* workers (one, or two for dual capture), each on a device that was found.
C19_NoDeviceNoStart ==
    [][(InStart /\ ctl'.pc = "idle")
         => \/ /\ ctl'.ret = "false"
               /\ workers' = workers
               /\ ~is_recording'
               /\ <<thread, mic_thread, speaker_thread>>' = <<thread, mic_thread, speaker_thread>>
            \/ /\ ctl'.ret = "true"
               /\ Len(workers') = Len(workers) + (IF ctl.both THEN 2 ELSE 1)
               /\ \A w \in Spawned : w.dev \in Devices]_vars

\* C19's case: start() has returned failure, no worker runs, no stream is
\* open and the session is inactive.
C19_Witness ==
    /\ ctl.pc = "idle"
    /\ ctl.ret = "false"
    /\ workers = <<>>
    /\ ~is_recording

(* --------------------------- transcriber claims ----------------------- *)
\* The claims' own reading of the two thresholds, the correction calls made
\* so far, and the surviving segments of the current input.
Survives(seg) == seg.no_speech_prob <= 60
Confident(seg) == seg.avg_logprob >= -80
CallSet == { calls[i] : i \in 1..Len(calls) }
Survivors == SelectSeq(segments, Survives)
Original(p) == Strip(Survivors[p].text)
AudioReturned == trPc = "returned" /\ ~engineFailed /\ segments # <<>>
FileReturned == trPc = "file_returned" /\ segments # <<>>

\* C11: a segment whose no-speech probability is above 0.6 contributes no
\* part to the output and is never sent for correction, and a segment at 0.6
\* or below is not dropped: the parts of the returned text are, position by
\* position, those of the segments at 0.6 or below, each part being that
\* segment's text (plain or marked) or what a correction call on that very
\* segment returned.
C11_NonSpeechDropped ==
    /\ \A c \in CallSet :
          c.index \in 1..Len(Survivors) /\ c.phrase = Original(c.index)
    /\ (AudioReturned \/ FileReturned) =>
          /\ Len(final_parts) = Len(Survivors)
          /\ result = Strip(JoinSp(final_parts))
          /\ \A p \in 1..Len(final_parts) :
                final_parts[p] \in
                    {Original(p), Placeholder(Original(p))}
                    \cup { c.returned : c \in { d \in CallSet : d.index = p } }

\* C11's case: a frame with a low-confidence segment at no-speech 0.9 and a
\* low-confidence segment at exactly 0.6 has been transcribed; one correction
\* call was made.
C11_Witness ==
    /\ AudioReturned
    /\ Len(calls) = 1
    /\ \E i, j \in 1..Len(segments) :
          /\ segments[i].no_speech_prob = 90 /\ segments[i].avg_logprob = -90
          /\ Strip(segments[i].text) # Empty
          /\ segments[j].no_speech_prob = 60 /\ segments[j].avg_logprob = -90

\* C12: every surviving segment whose confidence is -0.8 or higher is in the
\* returned text verbatim and at its own position, and no correction call is
\* made for it.
C12_ConfidentVerbatim ==
    AudioReturned =>
        /\ Len(final_parts) = Len(Survivors)
        /\ result = Strip(JoinSp(final_parts))
        /\ \A p \in 1..Len(Survivors) :
              Confident(Survivors[p]) =>
                  /\ final_parts[p] = Original(p)
                  /\ \A c \in CallSet : c.index # p

\* C12's case: the first segment was corrected, the second has confidence
\* exactly -0.8 and a text, and it follows the correction in the output.
C12_Witness ==
    /\ AudioReturned
    /\ Len(Survivors) = 2
    /\ Survivors[2].avg_logprob = -80 /\ Original(2) # Empty
    /\ \E c \in CallSet : c.index = 1 /\ c.returned # c.phrase /\ final_parts[1] = c.returned

C14_ErrorKeepsOriginal ==
    AudioReturned =>
        \A c \in CallSet : c.reply = GroqError => final_parts[c.index] = c.phrase

\* C15: the returned text is the surviving segments in order, each flagged
\* one replaced by the accepted correction or else by its original text,
\* joined with single blanks.
C15_Reassembly ==
    AudioReturned =>
        result = Strip(JoinSp([p \in 1..Len(Survivors) |->
                    IF \E c \in CallSet : c.index = p
                    THEN (CHOOSE c \in CallSet : c.index = p).returned
                    ELSE Original(p)]))

\* a text without its blanks
Squeeze(text) == Remove(text, <<Sp>>)

\* C16: the context given to every correction call is the provisional
\* transcript of the surviving segments' original texts (compared here up to
\* blanks).
C16_ContextIsProvisional ==
    \A c \in CallSet :
        Squeeze(c.context) = Squeeze(JoinSp([p \in 1..Len(Survivors) |-> Original(p)]))

\* C17: a frame on which the transcription engine fails does not come back
\* as a normal result: the call raises TranscriptionEngineError.
C17_EngineFailurePropagates ==
    (trPc = "returned" /\ engineFailed) => result = TranscriptionEngineError

\* C18: the dispatcher drops an empty or blank result without appending it to
\* transcript_display, and a frame whose segments are all non-speech gives
\* such a result.
C18_BlankDiscarded ==
    [][/\ (AudioReturned /\ AllSilence) => result = Empty
       /\ (trPc = "returned" /\ trPc' = "idle" /\ Strip(result) = Empty)
             => transcript_display' = transcript_display]_vars

\* C18's case: the dispatcher has just handled an all-silence frame and the
\* transcript is as empty as before.
C18_Witness ==
    /\ trPc = "idle"
    /\ dispatched = "discarded_silence"
    /\ transcript_display = 0

\* C20: a device returned for the loopback role has passed _validate_device,
\* and no device is returned only when no candidate validates.
C20_SelectedIsValidated ==
    selPc = "selected" =>
        IF speaker_index # NoDevice
        THEN ValidateDevice(catalog, speaker_index)
        ELSE \A i \in 1..Len(catalog) :
                ~(ValidateDevice(catalog, i) /\ catalog[i].inputs
                    /\ (IsStereoMixName(catalog[i].name) \/ IsOutputName(catalog[i].name)))

(* ----------------------- capture claims, continued -------------------- *)
\* C24: a worker-local error (the stream does not open, or a read or the
\* processing of a frame raises) ends that worker alone and leaves the
\* session's active flag as it was, in single-source and in dual capture.
C24_WorkerErrorSparesSession ==
    [][\A w \in WorkerIds :
          (workers[w].pc \in {"open", "reading"} /\ workers' = RemoveAt(workers, w))
              => is_recording' = is_recording]_vars

\* C25: every device stream a capture worker opened is closed when that
\* worker terminates, whichever way it leaves its loop: the streams that are
\* open are exactly those of the live workers that hold one.
C25_StreamsClosedOnExit ==
    open_streams = Cardinality({ w \in WorkerIds : StreamOpen(w) })

\* C25's case: no dual capture was ever started, the single-source worker
\* ended on a read failure (the session is still marked active) after its
\* stream had opened, and no stream is open.
C25_Witness ==
    /\ ctl.pc = "idle"
    /\ is_recording
    /\ workers = <<>>
    /\ thread = DeadThread
    /\ mic_thread = NoThread /\ speaker_thread = NoThread
    /\ open_streams = 0

\* C26: the per-source queues are single-consumer: the frames taken off the
\* microphone queue and not yet mixed were all taken by one thread.
C26_SingleConsumer ==
    \A v, w \in WorkerIds :
        (workers[v].held.src = "mic" /\ workers[w].held.src = "mic") => v = w

IsMixed(f) == f.src = "mixed"
IsSingle(f) == f.src = "single"
IsMicFrame(f) == f.src = "mic"
MixedQueued == SelectSeq(audio_queue, IsMixed)

\* C27: the pairing is FIFO: mixed frames are emitted in the push order of
\* both sources, and a frame that was mixed was pushed after no frame of its
\* source that is still waiting (queued, or held by a synchronizer call).
C27_FifoPairing ==
    /\ \A j, k \in 1..Len(MixedQueued) :
          j < k => MixedQueued[j].a < MixedQueued[k].a /\ MixedQueued[j].b < MixedQueued[k].b
    /\ \A k \in 1..Len(MixedQueued) :
          /\ \A w \in WorkerIds :
                workers[w].held.src = "mic" => workers[w].held.a > MixedQueued[k].a
          /\ \A j \in 1..Len(mic_queue) : mic_queue[j].a > MixedQueued[k].a
          /\ \A j \in 1..Len(speaker_queue) : speaker_queue[j].a > MixedQueued[k].b

\* the read numbers of a sequence of frames
Numbers(q) == [i \in 1..Len(q) |-> q[i].a]
Distinct(q) == \A i, j \in 1..Len(q) : i # j => q[i] # q[j]
Increasing(q) == \A i, j \in 1..Len(q) : i < j => q[i] < q[j]
Held == [w \in 1..Len(workers) |-> workers[w].held]
\* every place a frame read by a microphone worker is in: waiting, held by a
\* synchronizer call, part of a queued mixed frame, or of the one the
\* dispatcher pulled last
MicUses ==
    Numbers(mic_queue) \o Numbers(SelectSeq(Held, IsMicFrame))
        \o Numbers(MixedQueued) \o (IF IsMixed(lastChunk) THEN <<lastChunk.a>> ELSE <<>>)
SpeakerUses ==
    Numbers(speaker_queue) \o [i \in 1..Len(MixedQueued) |-> MixedQueued[i].b]
        \o (IF IsMixed(lastChunk) THEN <<lastChunk.b>> ELSE <<>>)
SingleUses ==
    (IF IsSingle(lastChunk) THEN <<lastChunk.a>> ELSE <<>>)
        \o Numbers(SelectSeq(audio_queue, IsSingle))

\* C28: frames are produced once and consumed once, in order.  After every
\* step: the single-source frames the dispatcher pulled last and has still to
\* pull are in capture order without repetition; no frame read from a source
\* is in two places (it is part of at most one mixed frame); and a frame the
\* dispatcher pulls is the head of the shared queue and is on it no more.
C28_ProducedOnceConsumedOnce ==
    [][/\ Increasing(SingleUses')
       /\ Distinct(MicUses') /\ Distinct(SpeakerUses')
       /\ \A i \in 1..Len(audio_queue') : audio_queue'[i].a <= nframes'
       /\ (lastChunk' # lastChunk /\ lastChunk' # None)
             => /\ audio_queue # <<>>
                /\ lastChunk' = Head(audio_queue)
                /\ audio_queue' = Tail(audio_queue)
                /\ \A i \in 1..Len(audio_queue') : audio_queue'[i] # lastChunk']_vars

\* C28's case: the dispatcher has pulled the first single-source frame while
\* the second and the third wait on the shared queue.
C28_Witness ==
    /\ IsSingle(lastChunk)
    /\ Len(audio_queue) = 2
    /\ IsSingle(audio_queue[1]) /\ IsSingle(audio_queue[2])
    /\ lastChunk.a < audio_queue[1].a

(* --------------------- transcriber claims, continued ------------------ *)
\* the claim's own reading of "flagged": confidence below -0.8
Uncertain(seg) == seg.avg_logprob < -80
CallsFor(p) == { i \in 1..Len(calls) : calls[i].index = p }

\* one request for each flagged surviving segment, carrying its original
\* phrase, and none for any other segment
OneRequestPerFlagged ==
    /\ \A p \in 1..Len(Survivors) :
          IF Uncertain(Survivors[p])
          THEN /\ Cardinality(CallsFor(p)) = 1
               /\ \A i \in CallsFor(p) : calls[i].phrase = Original(p)
          ELSE CallsFor(p) = {}
    /\ \A i \in 1..Len(calls) : calls[i].index \in 1..Len(Survivors)
    /\ Len(calls) = Cardinality({ p \in 1..Len(Survivors) : Uncertain(Survivors[p]) })

\* C29 as stated: for one frame, exactly one correction request is sent for
\* each flagged surviving segment, carrying that segment's original phrase,
\* and none for a segment that is not flagged.
C29_OneRequestPerFlagged == AudioReturned => OneRequestPerFlagged

\* C29 as the code has it: with a completion client configured, exactly one
\* correction request is sent for each flagged surviving segment, carrying
\* its original phrase, and none for any other segment; without a client
\* (no API key: the correction layer is disabled) no request is sent.
C29_OneRequestPerFlaggedWithClient ==
    AudioReturned => IF groq_client THEN OneRequestPerFlagged ELSE calls = <<>>

\* C29's case: a frame of two flagged segments with different phrases, a
\* client configured, and two requests, one for each, in segment order.
C29_Witness ==
    /\ AudioReturned
    /\ groq_client
    /\ Len(Survivors) = 2
    /\ Uncertain(Survivors[1]) /\ Uncertain(Survivors[2])
    /\ Original(1) # Original(2)
    /\ Len(calls) = 2
    /\ calls[1].index = 1 /\ calls[2].index = 2

(* ------------------------ selection claims, continued ----------------- *)
\* the catalog's candidates for the microphone role, in the claim's words:
\* input-capable, named as a microphone, and passing validation
MicCandidates ==
    { i \in 1..Len(catalog) :
        catalog[i].inputs /\ catalog[i].name = "microphone" /\ catalog[i].valid }

\* C21: microphone-role selection returns the first candidate in enumeration
\* order; without a candidate it returns the OS default input if that
\* validates, and otherwise reports that no device was found.  A device that
\* fails validation is never returned.
C21_MicrophoneSelection ==
    selPc = "mic_selected" =>
        /\ MicCandidates # {} =>
              mic_index \in MicCandidates /\ \A j \in MicCandidates : mic_index <= j
        /\ (MicCandidates = {} /\ default_input # NoDevice /\ catalog[default_input].valid)
              => mic_index = default_input
        /\ (MicCandidates = {} /\ (default_input = NoDevice \/ ~catalog[default_input].valid))
              => mic_index = NoDevice
        /\ mic_index # NoDevice => catalog[mic_index].valid

\* C21's case: the first device is a microphone by name that fails
\* validation, no candidate is left, and the validated default input, a
\* device of another name, was returned.
C21_Witness ==
    /\ selPc = "mic_selected"
    /\ MicCandidates = {}
    /\ Len(catalog) = 2
    /\ catalog[1].inputs /\ catalog[1].name = "microphone" /\ ~catalog[1].valid
    /\ default_input = 2 /\ mic_index = 2

\* C22: validate never raises: for an unknown index and for a device that
\* cannot be opened it returns failure; it returns success only after a probe
\* stream was opened; and no probe stream is open when it has returned.
C22_ValidateNeverRaises ==
    /\ validation.pc # "raised"
    /\ validation.pc = "returned" =>
          /\ validation.ret \in {"true", "false"}
          /\ (~validation.known \/ ~validation.info.valid) => validation.ret = "false"
          /\ validation.ret = "true" => validation.probe = "closed"
          /\ validation.probe # "open"

\* C22's case: validate was given an index the backend does not know and
\* has returned failure without opening a stream.
C22_Witness ==
    /\ validation.pc = "returned"
    /\ ~validation.known
    /\ validation.ret = "false"
    /\ validation.probe = "none"

(* --------------------------- frame claims ----------------------------- *)
\* C23: mix(a, b) has the length of the shorter input, its i-th sample is
\* the average of a[i] and b[i] (to the last digit kept), and mix(a, a) is a.
C23_MixLengthAndAverage ==
    frPc = "mixed" =>
        /\ Len(mixed) = IF Len(mic_audio) < Len(speaker_audio)
                        THEN Len(mic_audio) ELSE Len(speaker_audio)
        /\ \A i \in 1..Len(mixed) :
              2 * mixed[i] - (mic_audio[i] + speaker_audio[i]) \in {-1, 0, 1}
        /\ mic_audio = speaker_audio => mixed = mic_audio

\* C23's case: a two-sample frame with a loud sample was mixed with a
\* different one-sample frame; the mix has one sample.
C23_Witness ==
    /\ frPc = "mixed"
    /\ Len(mic_audio) = 2 /\ Len(speaker_audio) = 1
    /\ mic_audio[1] = PEAK /\ speaker_audio[1] = 95
    /\ Len(mixed) = 1

\* C30: every frame a capture worker pushes, in single-source and in dual
\* capture, is the chunk read taken through PCM-to-float conversion, peak
\* normalization, the noise gate, the downmix of a stereo chunk and the
\* resampling to the canonical rate, in this order.
C30_PostProcessingOrder ==
    frPc = "pushed" =>
        audio_np =
            LET gated == NoiseGate(Normalize(ToFloat(audio_data)))
                mono == IF channels = 2 THEN ToMono(gated) ELSE gated
            IN  Resample(mono, actual_rate, CANONICAL_RATE)

\* what does hold: the single-source loop applies the five steps in the
\* stated order
SingleLoopPostProcessingOrder ==
    (frPc = "pushed" /\ source_name = "single") => C30_PostProcessingOrder

\* C31: every frame a capture worker pushes has the fixed length
\* canonical_rate x chunk_duration, at every native rate and for one and for
\* two channels; a chunk read at the canonical rate is not resampled (its
\* samples are the converted, or converted and gated, samples one for one);
\* and resample(frame, R, R) is the frame.
C31_FixedLength ==
    frPc = "pushed" =>
        /\ Len(audio_np) = ChunkFrames
        /\ (actual_rate = 16000 /\ channels = 1) =>
              audio_np = IF source_name = "single"
                         THEN NoiseGate(Normalize(ToFloat(audio_data)))
                         ELSE ToFloat(audio_data)
        /\ \A R \in Rates : Resample(audio_np, R, R) = audio_np

\* C31's case: a stereo chunk read at twice the canonical rate, four values
\* for each sample of the frame pushed.
C31_Witness ==
    /\ frPc = "pushed"
    /\ actual_rate = 32000 /\ channels = 2
    /\ Len(audio_data) = 4 * Len(audio_np)
    /\ audio_np # <<>>

(* --------------------- transcriber claims, the rest ------------------- *)
\* what a correction call hands back, as a function of phrase and response
Accepted(phrase, reply) ==
    IF reply = GroqError THEN phrase
    ELSE IF Len(Strip(reply)) <= 3 * Len(phrase) THEN Strip(reply) ELSE phrase

\* the text of a frame as a function of the frame alone: its segments, the
\* client setting, whether the engine ran, and the responses to its requests
FrameText ==
    IF engineFailed \/ segments = <<>> THEN Empty
    ELSE Strip(JoinSp([p \in 1..Len(Survivors) |->
            IF ~Uncertain(Survivors[p]) THEN Original(p)
            ELSE IF groq_client /\ CallsFor(p) # {}
                    /\ Accepted(Original(p), calls[CHOOSE i \in CallsFor(p) : TRUE].reply) # Empty
                 THEN Accepted(Original(p), calls[CHOOSE i \in CallsFor(p) : TRUE].reply)
                 ELSE Placeholder(Original(p))]))

\* C32: the pipeline is stateless across frames: whatever frames were
\* processed before, the text transcribe_audio returns for a frame is one
\* function of that frame's segments and of the responses to its correction
\* requests, so the same frame gives the same text in any order and any
\* number of times.
C32_StatelessAcrossFrames ==
    trPc = "returned" => result = FrameText

\* C32's case: a frame with a corrected segment has been transcribed after
\* an earlier frame was transcribed and displayed.
C32_Witness ==
    /\ AudioReturned
    /\ transcript_display = 1
    /\ \E i \in 1..Len(calls) : calls[i].returned # calls[i].phrase /\ calls[i].returned # Empty

\* C33: the text transcribe_audio returns never contains the uncertainty
\* markers "[?]" and "[/?]", with or without a correction client and
\* whatever the correction service answers.
C33_NoMarkersInOutput ==
    trPc = "returned" => Remove(Remove(result, OpenMark), CloseMark) = result

\* C36: the dispatcher appends every result that is not empty or blank to
\* the session transcript.
C36_NonBlankAppended ==
    [][(trPc = "returned" /\ trPc' = "idle" /\ Strip(result) # Empty)
          => dispatched' = "displayed"]_vars

\* C37: for the same segments, client setting and correction responses,
\* transcribe_file returns the text transcribe_audio returns (which, by C32,
\* is FrameText).
C37_FileEqualsAudio ==
    trPc = "file_returned" => result = FrameText

(* ------------------------ capture claims, the rest --------------------- *)
\* C34: in dual-capture mode no worker blocks for ever inside the
\* synchronizer: no worker waits in a blocking get() on the empty queue that
\* only its own reads fill, which is a wait nothing can end.
C34_SynchronizerReturns ==
    \A w \in WorkerIds :
        /\ ~(workers[w].kind = "speaker" /\ workers[w].pc = "mix_get_spk"
                /\ speaker_queue = <<>>)
        /\ ~(workers[w].kind = "mic" /\ workers[w].pc = "mix_get_mic"
                /\ mic_queue = <<>>)

\* C35: once stop() has been followed by a start() that succeeded, no frame
\* read before that start() is delivered: neither the frame a poll of
\* get_audio_chunk returns nor a part of a mixed frame is older than the
\* session.
C35_NoFrameCrossesSessions ==
    [][(ctl.pc = "idle" /\ ctl.ret = "true"
          /\ lastChunk' # lastChunk /\ lastChunk' # None)
         => /\ lastChunk'.a > started_at
            /\ IsMixed(lastChunk') => lastChunk'.b > started_at]_vars

\* C38: both workers of dual capture use one pair of per-source queues that
\* exists before either of them needs it: no creation step replaces a queue
\* that holds a frame, and no worker ends because the queue for the frame it
\* has just read does not exist.
C38_LazyQueuesLoseNothing ==
    [][\A w \in WorkerIds :
          /\ (workers[w].pc = "create_mic"
                 /\ workers' = [workers EXCEPT ![w].pc = "create_spk"])
                => mic_queue' = mic_queue
          /\ (workers[w].pc = "create_spk"
                 /\ workers' = [workers EXCEPT ![w].pc = "loop"])
                => speaker_queue' = speaker_queue
          /\ (workers[w].pc = "reading" /\ nframes' = nframes + 1)
                => workers' # RemoveAt(workers, w)]_vars
====
